---------------------------- MODULE Spec2Model ----------------------------
(***************************************************************************)
(* Model of TuneHarvester's MusicDownloader (src/app.py).                  *)
(*                                                                         *)
(* A Python str is modelled as a sequence of one-character strings, so     *)
(* that the regular expressions, strip(), join() and the file format act   *)
(* on characters.  A Python dict is a function whose DOMAIN is the set of  *)
(* keys it carries; None is the value None below.                          *)
(***************************************************************************)
EXTENDS Naturals, Integers, Sequences, FiniteSets, TLC

(***************************************************************************)
(* Bounds of the model.                                                    *)
(***************************************************************************)
MaxTitleLen == 4

MaxPieces == 4

MaxTracks == 2

MaxEntries == 2

MaxFileLen == 4

MaxMarkers == 3

MaxItems == 3

MaxPageSize == 2

(***************************************************************************)
(* Strings.                                                                *)
(***************************************************************************)
None == [none |-> TRUE]

\* str.strip() and the regex class \s, on the whitespace the model uses
\* None where a list of records is expected (a result that is absent)
NoList == << None >>

\* None where a str is expected: no sequence of characters equals it
NoStr == << "None" >>

IsSpace(c) == c \in {" ", "\n", "\t"}

AllSpace(s) == \A i \in 1..Len(s) : IsSpace(s[i])

\* the regex metacharacter "." matches anything but a newline
NoNewline(s) == \A i \in 1..Len(s) : s[i] # "\n"

MinOf(S) == CHOOSE x \in S : \A y \in S : x <= y

MaxOf(S) == CHOOSE x \in S : \A y \in S : x >= y

Tail0(s, i) == SubSeq(s, i, Len(s))

\* str.strip()
Strip(s) ==
    LET ns == {i \in 1..Len(s) : ~IsSpace(s[i])}
    IN  IF ns = {} THEN <<>> ELSE SubSeq(s, MinOf(ns), MaxOf(ns))

\* re.IGNORECASE on the letters the separator pattern uses
Lower(c) ==
    CASE c = "F" -> "f" [] c = "E" -> "e" [] c = "A" -> "a" [] c = "T" -> "t"
      [] c = "X" -> "x" [] c = "C" -> "c" [] c = "O" -> "o" [] c = "N" -> "n"
      [] OTHER -> c

RECURSIVE Flatten(_)
Flatten(ss) == IF ss = <<>> THEN <<>> ELSE Head(ss) \o Flatten(Tail(ss))

\* sep.join(parts)
RECURSIVE Join(_, _)
Join(sep, parts) ==
    IF parts = <<>> THEN <<>>
    ELSE IF Len(parts) = 1 THEN parts[1]
    ELSE parts[1] \o sep \o Join(sep, Tail(parts))

(***************************************************************************)
(* extract_metadata_from_youtube_title: the regular expressions.           *)
(***************************************************************************)
Bullet == "BULLET"   \* the one character U+2022

UnknownTitle == <<"U","n","k","n","o","w","n"," ","T","i","t","l","e">>

UnknownArtist == <<"U","n","k","n","o","w","n"," ","A","r","t","i","s","t">>

UnknownAlbum == <<"U","n","k","n","o","w","n"," ","A","l","b","u","m">>

CommaSpace == <<",", " ">>

\* re.sub(r'\s*<open>[^<close>]*<close>\s*$', '', s): the leftmost match
\* starts at the whitespace run before the first opening character whose
\* next closing character is followed by whitespace only
StripTrailingGroup(s, open, close) ==
    LET closes(j) == {k \in (j+1)..Len(s) : s[k] = close}
        valid == {j \in 1..Len(s) :
                     /\ s[j] = open
                     /\ closes(j) # {}
                     /\ AllSpace(Tail0(s, MinOf(closes(j)) + 1))}
    IN  IF valid = {} THEN s
        ELSE LET j == MinOf(valid)
                 before == {p \in 1..(j-1) : ~IsSpace(s[p])}
                 keep == IF before = {} THEN 0 ELSE MaxOf(before)
             IN  SubSeq(s, 1, keep)

\* clean_title after the two substitutions
CleanTitle(title) ==
    StripTrailingGroup(StripTrailingGroup(title, "(", ")"), "[", "]")

NoMatch == [matched |-> FALSE]

\* the tail r'\s*(.+)$' of every pattern: the greedy \s* gives back
\* whitespace until (.+) has a non-empty, newline-free rest to take
TailGroup(rest) ==
    LET spaces == {n \in 0..Len(rest) : AllSpace(SubSeq(rest, 1, n))}
        ok == {n \in spaces : n < Len(rest) /\ NoNewline(Tail0(rest, n+1))}
    IN  IF ok = {} THEN NoMatch
        ELSE [matched |-> TRUE, g |-> Tail0(rest, MaxOf(ok) + 1)]

\* r'^([^<ch>]+)<ch>\s*(.+)$'
MatchFirst(t, ch) ==
    LET at == {i \in 1..Len(t) : t[i] = ch}
    IN  IF at = {} THEN NoMatch
        ELSE LET d == MinOf(at)
                 tl == TailGroup(Tail0(t, d+1))
             IN  IF d < 2 \/ ~tl.matched THEN NoMatch
                 ELSE [matched |-> TRUE, g1 |-> SubSeq(t, 1, d-1), g2 |-> tl.g]

\* r'^(.+?)\s*-\s*(.+)$': the lazy group takes the fewest characters
MatchLazyDash(t) ==
    LET dashAfter(n) ==
            LET ns == {q \in (n+1)..Len(t) : ~IsSpace(t[q])}
            IN  IF ns = {} THEN 0
                ELSE IF t[MinOf(ns)] = "-" THEN MinOf(ns) ELSE 0
        ok == {n \in 1..Len(t) :
                  /\ NoNewline(SubSeq(t, 1, n))
                  /\ dashAfter(n) # 0
                  /\ TailGroup(Tail0(t, dashAfter(n) + 1)).matched}
    IN  IF ok = {} THEN NoMatch
        ELSE LET n == MinOf(ok)
             IN  [matched |-> TRUE, g1 |-> SubSeq(t, 1, n),
                  g2 |-> TailGroup(Tail0(t, dashAfter(n) + 1)).g]

\* the ordered list `patterns`; the first that matches wins
MatchPatterns(t) ==
    IF MatchFirst(t, "-").matched THEN MatchFirst(t, "-")
    ELSE IF MatchFirst(t, Bullet).matched THEN MatchFirst(t, Bullet)
    ELSE IF MatchFirst(t, ":").matched THEN MatchFirst(t, ":")
    ELSE MatchLazyDash(t)

\* the words of artist_separators between \s+ and \s+
SeparatorWords ==
    { <<"f","e","a","t",".">>, <<"f","e","a","t">>, <<"f","t",".">>,
      <<"f","t">>, <<"&">>, <<"x">>, <<"c","o","n">> }

WordAt(s, p, w) ==
    /\ p + Len(w) - 1 <= Len(s)
    /\ \A i \in 1..Len(w) : Lower(s[p + i - 1]) = w[i]

\* number of whitespace characters of s from position p on
SpaceRun(s, p) ==
    LET ns == {q \in p..Len(s) : ~IsSpace(s[q])}
    IN  IF ns = {} THEN Len(s) - p + 1 ELSE MinOf(ns) - p

\* length of the match of artist_separators that starts at p, 0 when none
SeparatorAt(s, p) ==
    IF p > Len(s) THEN 0
    ELSE IF s[p] = "," THEN 1
    ELSE LET lead == SpaceRun(s, p)
             ws == {w \in SeparatorWords :
                       /\ WordAt(s, p + lead, w)
                       /\ SpaceRun(s, p + lead + Len(w)) > 0}
         IN  IF lead = 0 \/ ws = {} THEN 0
             ELSE LET w == CHOOSE v \in ws : \A u \in ws : Len(v) >= Len(u)
                  IN  lead + Len(w) + SpaceRun(s, p + lead + Len(w))

\* re.split(artist_separators, s, flags=re.IGNORECASE) from position pos
RECURSIVE SplitFrom(_, _)
SplitFrom(s, pos) ==
    LET hits == {p \in pos..Len(s) : SeparatorAt(s, p) > 0}
    IN  IF hits = {} THEN << Tail0(s, pos) >>
        ELSE LET p == MinOf(hits)
             IN  << SubSeq(s, pos, p - 1) >> \o SplitFrom(s, p + SeparatorAt(s, p))

SplitArtists(s) == SplitFrom(s, 1)

\* the loop that strips every part and keeps the non-empty ones
RECURSIVE StripAndKeep(_)
StripAndKeep(parts) ==
    IF parts = <<>> THEN <<>>
    ELSE IF Strip(Head(parts)) = <<>> THEN StripAndKeep(Tail(parts))
    ELSE << Strip(Head(parts)) >> \o StripAndKeep(Tail(parts))

\* mutant of extract_metadata_from_youtube_title: the two groups swapped
ExtractGroupsSwapped(t) ==
    LET clean_title == CleanTitle(t)
        m == MatchPatterns(Strip(clean_title))
    IN  IF m.matched
        THEN LET artists == StripAndKeep(SplitArtists(Strip(m.g2)))
             IN  [title |-> Strip(m.g1),
                  artist |-> Join(CommaSpace, artists),
                  artists |-> artists,
                  source |-> "youtube"]
        ELSE [title |-> clean_title,
              artist |-> UnknownArtist,
              artists |-> << UnknownArtist >>,
              source |-> "youtube_fallback"]

extract_metadata_from_youtube_title(t) ==
    LET clean_title == CleanTitle(t)
        m == MatchPatterns(Strip(clean_title))
    IN  IF m.matched
        THEN LET artists == StripAndKeep(SplitArtists(Strip(m.g1)))
             IN  [title |-> Strip(m.g2),
                  artist |-> Join(CommaSpace, artists),
                  artists |-> artists,
                  source |-> "youtube"]
        ELSE [title |-> clean_title,
              artist |-> UnknownArtist,
              artists |-> << UnknownArtist >>,
              source |-> "youtube_fallback"]

(***************************************************************************)
(* Metadata records and get_best_metadata.                                 *)
(***************************************************************************)
EmptyDict == << >>

\* Python truth value of an optional dict: None and {} are false
Truthy(d) == d # None /\ DOMAIN d # {}

\* d.get(k, default)
Get(d, k, default) == IF k \in DOMAIN d THEN d[k] ELSE default

\* the record appended for one playlist entry (artists is non-empty here)
SpotifyTrackRecord(track_name, artists, album, release_date) ==
    [title |-> track_name,
     artist |-> Join(CommaSpace, artists),
     artists |-> artists,
     album |-> album,
     year |-> SubSeq(release_date, 1, IF Len(release_date) < 4 THEN Len(release_date) ELSE 4),
     query |-> Join(<<" ">>, artists) \o <<" ">> \o track_name,
     source |-> "spotify_api"]

\* what get_lastfm_track_info returns when the lookup gives nothing
DefaultTrackInfo == [album |-> UnknownAlbum, year |-> << >>]

\* the record search_lastfm_track returns for the best match
LastfmRecord(name, artist, track_info) ==
    [title |-> name,
     artist |-> artist,
     album |-> Get(track_info, "album", UnknownAlbum),
     year |-> Get(track_info, "year", << >>),
     artists |-> << artist >>,
     source |-> "lastfm"]

DefaultMetadata ==
    [title |-> UnknownTitle,
     artist |-> UnknownArtist,
     artists |-> << UnknownArtist >>,
     album |-> UnknownAlbum,
     year |-> << >>,
     source |-> "combined"]

\* final_metadata.update(...) from a winning catalog record
FromCatalog(d, tag) ==
    [title |-> Get(d, "title", DefaultMetadata.title),
     artist |-> Get(d, "artist", DefaultMetadata.artist),
     artists |-> Get(d, "artists", DefaultMetadata.artists),
     album |-> Get(d, "album", DefaultMetadata.album),
     year |-> Get(d, "year", DefaultMetadata.year),
     source |-> tag]

\* final_metadata.update(...) from the parsed title
FromTitle(d) ==
    [title |-> Get(d, "title", DefaultMetadata.title),
     artist |-> Get(d, "artist", DefaultMetadata.artist),
     artists |-> Get(d, "artists", DefaultMetadata.artists),
     album |-> DefaultMetadata.album,
     year |-> DefaultMetadata.year,
     source |-> "youtube"]

\* whether get_best_metadata calls search_lastfm_album_info
AlbumLookupMade(sp, lf, yt) ==
    /\ ~Truthy(sp)
    /\ ~Truthy(lf)
    /\ Truthy(yt)
    /\ FromTitle(yt).artist # UnknownArtist

\* mutant of get_best_metadata: fields the curated record lacks are taken
\* from the social record
BestMetadataMerging(sp, lf, yt, album_year) ==
    IF Truthy(sp)
    THEN FromCatalog([k \in (DOMAIN sp) \cup (IF Truthy(lf) THEN DOMAIN lf ELSE {}) |->
                         IF k \in DOMAIN sp THEN sp[k] ELSE lf[k]], "spotify")
    ELSE IF Truthy(lf) THEN FromCatalog(lf, "lastfm")
    ELSE IF Truthy(yt)
    THEN IF FromTitle(yt).artist # UnknownArtist /\ album_year # << >>
         THEN [FromTitle(yt) EXCEPT !.year = album_year]
         ELSE FromTitle(yt)
    ELSE DefaultMetadata

\* mutant of get_best_metadata: the title branch leaves 'artists' alone
BestMetadataStaleArtists(sp, lf, yt, album_year) ==
    IF Truthy(sp) THEN FromCatalog(sp, "spotify")
    ELSE IF Truthy(lf) THEN FromCatalog(lf, "lastfm")
    ELSE IF Truthy(yt)
    THEN [FromTitle(yt) EXCEPT !.artists = DefaultMetadata.artists]
    ELSE DefaultMetadata

\* mutant of get_best_metadata: the title branch is taken for every record
\* that is not None, empty or not
BestMetadataEmptyTitleWins(sp, lf, yt, album_year) ==
    IF Truthy(sp) THEN FromCatalog(sp, "spotify")
    ELSE IF Truthy(lf) THEN FromCatalog(lf, "lastfm")
    ELSE IF yt # None THEN FromTitle(yt)
    ELSE DefaultMetadata

\* get_best_metadata; album_year is album_info.get('year') of the lookup
\* made in the title branch
get_best_metadata(sp, lf, yt, album_year) ==
    IF Truthy(sp) THEN FromCatalog(sp, "spotify")
    ELSE IF Truthy(lf) THEN FromCatalog(lf, "lastfm")
    ELSE IF Truthy(yt)
    THEN IF FromTitle(yt).artist # UnknownArtist /\ album_year # << >>
         THEN [FromTitle(yt) EXCEPT !.year = album_year]
         ELSE FromTitle(yt)
    ELSE DefaultMetadata


(***************************************************************************)
(* sanitize_filename, create_filename_from_metadata and step 5 of          *)
(* download_track.                                                         *)
(***************************************************************************)
\* the character class of sanitize_filename
ReservedChars == {"<", ">", ":", "\"", "/", "\\", "|", "?", "*"}

\* mutant of sanitize_filename: the question mark is not in the class
SanitizeKeepsQuestionMark(s) == SelectSeq(s, LAMBDA c : c \notin (ReservedChars \ {"?"}))

sanitize_filename(s) == SelectSeq(s, LAMBDA c : c \notin ReservedChars)

DashSep == <<" ", "-", " ">>

create_filename_from_metadata(metadata) ==
    IF ~Truthy(metadata) THEN NoStr
    ELSE LET t == Get(metadata, "title", << >>)
             listed == Get(metadata, "artists", << >>)
             artists == IF listed = << >> /\ Get(metadata, "artist", << >>) # << >>
                        THEN << metadata.artist >>
                        ELSE listed
         IN  IF t = << >> THEN NoStr
             ELSE IF artists = << >> THEN sanitize_filename(t)
             ELSE sanitize_filename(Join(DashSep, << t >> \o artists))

\* step 5 of download_track: the custom name, else the synthesized name,
\* else the sanitized raw title
ChooseFilename(custom, metadata, raw_title) ==
    IF custom # << >> THEN sanitize_filename(custom)
    ELSE LET synthesized == create_filename_from_metadata(metadata)
         IN  IF synthesized = NoStr \/ synthesized = << >>
             THEN sanitize_filename(raw_title)
             ELSE synthesized

(***************************************************************************)
(* State.                                                                  *)
(***************************************************************************)
VARIABLES
    pc,                 \* position of the operation under way
    title,              \* video_info['title'], the raw platform title
    youtube_metadata,   \* result of extract_metadata_from_youtube_title
    spotify_metadata,   \* first argument of get_best_metadata
    lastfm_metadata,    \* result of search_lastfm_track
    final_metadata,     \* result of get_best_metadata
    produced,           \* the resolver's inputs all come from the producers
    album_lookups,      \* calls of search_lastfm_album_info so far
    custom_filename,    \* the custom_filename argument of download_track ('' for None)
    filename,           \* the file name download_track settles on in step 5
    source,             \* the input string given on the command line
    source_exists,      \* os.path.exists(source)
    input_type,         \* what detect_input_type returned for the source
    extract_only,       \* the extract_only argument
    playlist_file,      \* what the curated branch wrote: "none", "list", "template"
    tracks,             \* the queries of the playlist, in order
    idx,                \* position of the playlist loop (1-based)
    downloaded_files,   \* paths returned by download_track, in order
    failed_downloads,   \* queries whose download failed, in order
    download_path,      \* self.download_path
    original_path,      \* the saved download_path
    disk,               \* audio files in the playlist folder, oldest first
    attempts,           \* queries download_track was called with, in order
    outcomes,           \* what happened in each call of download_track
    returned,           \* value download_playlist_from_source returned
    api_tracks,         \* what extract_spotify_playlist_with_api returned
    file_text,          \* content of the query-list file
    loaded_tracks,      \* what load_tracks_from_file returned
    playlist_items,     \* the entries of the playlist at the provider, in order
    page_size,          \* how many entries the provider puts on a page
    page_no,            \* the page `results` holds (0 before the first fetch)
    collected           \* the local list `tracks` of extract_spotify_playlist_with_api

metaVars ==
    << spotify_metadata, lastfm_metadata, final_metadata, produced, album_lookups,
       custom_filename, filename >>

listVars ==
    << source, source_exists, input_type, extract_only, playlist_file, tracks, idx, downloaded_files, failed_downloads,
       download_path, original_path, disk, attempts, outcomes, returned >>

fileVars == << api_tracks, file_text, loaded_tracks >>

pageVars == << playlist_items, page_size, page_no, collected >>

vars == << pc, title, youtube_metadata, metaVars, listVars, fileVars, pageVars >>

PageIdle ==
    /\ playlist_items = << >>
    /\ page_size = 1
    /\ page_no = 0
    /\ collected = << >>

FileIdle ==
    /\ api_tracks = << >>
    /\ file_text = << >>
    /\ loaded_tracks = << >>

ListIdle ==
    /\ source = << >>
    /\ source_exists = FALSE
    /\ input_type = "search"
    /\ extract_only = FALSE
    /\ playlist_file = "none"
    /\ tracks = << >>
    /\ idx = 0
    /\ downloaded_files = << >>
    /\ failed_downloads = << >>
    /\ download_path = "root"
    /\ original_path = "root"
    /\ disk = << >>
    /\ attempts = << >>
    /\ outcomes = << >>
    /\ returned = << >>

MetaIdle ==
    /\ spotify_metadata = None
    /\ lastfm_metadata = None
    /\ final_metadata = None
    /\ produced = TRUE
    /\ album_lookups = 0
    /\ custom_filename = << >>
    /\ filename = << >>

(***************************************************************************)
(* The raw titles the title parser is run on: every short string over      *)
(* TitleAlphabet, and every "<artist segment><mark><song><suffix>" whose    *)
(* artist segment is made of at most MaxPieces pieces.                     *)
(***************************************************************************)
TitleAlphabet == {"a", "x", " ", "-", ",", "(", ")", "[", "]"}

ShortTitles == UNION { [1..n -> TitleAlphabet] : n \in 0..MaxTitleLen }

Pieces ==
    { <<"a">>, <<" ">>, <<",">>, <<" ", "x">>, <<" ", "&", " ">>,
      <<" ", "F", "t", ".", " ">> }

Segments == { Flatten(ps) : ps \in UNION { [1..n -> Pieces] : n \in 1..MaxPieces } }

SplitMarks == { <<" ", "-", " ">>, <<":">> }

Suffixes == { <<>>, <<" ", "(", "a", ")">> }

SegmentTitles ==
    { seg \o mark \o <<"a">> \o suf :
        seg \in Segments, mark \in SplitMarks, suf \in Suffixes }

RawTitles == ShortTitles \cup SegmentTitles

(***************************************************************************)
(* SpecTitle: the title parser applied to a raw title.                     *)
(***************************************************************************)
InitTitle ==
    /\ pc = "title"
    /\ title \in RawTitles
    /\ youtube_metadata = None
    /\ MetaIdle
    /\ ListIdle
    /\ FileIdle
    /\ PageIdle

ExtractTitle ==
    /\ pc = "title"
    /\ youtube_metadata' = extract_metadata_from_youtube_title(title)
    /\ pc' = "parsed"
    /\ UNCHANGED << title, metaVars, listVars, fileVars, pageVars >>

NextTitle == ExtractTitle

SpecTitle == InitTitle /\ [][NextTitle]_vars

(***************************************************************************)
(* Title parser claims (checked under SpecTitle).                          *)
(***************************************************************************)
Parsed == pc = "parsed"

\* s ends, up to trailing whitespace, with a group open ... close
HasTrailingGroup(s, open, close) ==
    \E j \in 1..Len(s) : \E k \in (j+1)..Len(s) :
        /\ s[j] = open
        /\ s[k] = close
        /\ \A q \in (j+1)..(k-1) : s[q] # close
        /\ AllSpace(Tail0(s, k+1))

NoTrailingSuffix(s) ==
    ~HasTrailingGroup(s, "(", ")") /\ ~HasTrailingGroup(s, "[", "]")

\* s carries an artist separator: a comma, or one of the separator words
\* standing as a word of its own
HasSeparatorMark(s) ==
    \E p \in 1..Len(s) :
        \/ s[p] = ","
        \/ \E w \in SeparatorWords :
              /\ WordAt(s, p, w)
              /\ (p = 1 \/ IsSpace(s[p-1]))
              /\ (p + Len(w) > Len(s) \/ IsSpace(s[p + Len(w)]))

\* title is A ++ " - " ++ B with the " - " at position i, A as C2 asks
SimpleForm(i) ==
    /\ i + 2 <= Len(title)
    /\ SubSeq(title, i, i+2) = <<" ", "-", " ">>
    /\ i > 1
    /\ \A q \in 1..(i-1) : title[q] # "-"
    /\ ~HasSeparatorMark(SubSeq(title, 1, i-1))
    /\ NoTrailingSuffix(title)

SimpleResult(i) ==
    /\ youtube_metadata.title = Strip(Tail0(title, i+3))
    /\ youtube_metadata.artists = << Strip(SubSeq(title, 1, i-1)) >>
    /\ youtube_metadata.artist = Strip(SubSeq(title, 1, i-1))

\* A and B each hold a visible character and B holds no line break
VisibleParts(i) ==
    /\ Strip(SubSeq(title, 1, i-1)) # <<>>
    /\ Strip(Tail0(title, i+3)) # <<>>
    /\ NoNewline(Tail0(title, i+3))

\* C2 as stated: every raw title "A - B" with A non-empty, free of dashes
\* and artist separators, and no trailing suffix, parses to title B and
\* artistList [A], both trimmed, with artist A.
C2_SimpleCaseAsStated ==
    Parsed => \A i \in 1..Len(title) : SimpleForm(i) => SimpleResult(i)

\* C2 amended: the same, for A and B that each hold a visible character
\* (B on one line); a blank A or B makes the parser fall back instead.
C2_SimpleCase ==
    Parsed =>
        \A i \in 1..Len(title) : SimpleForm(i) /\ VisibleParts(i) => SimpleResult(i)

C2_Witness ==
    /\ Parsed
    /\ \E i \in 1..Len(title) : SimpleForm(i) /\ VisibleParts(i)
    /\ youtube_metadata.source = "youtube"

\* the artist segment the patterns hand to the separator split
ArtistSegment == Strip(MatchPatterns(Strip(CleanTitle(title))).g1)

\* length of the separator standing at p of s, as a reader of the title
\* sees it: a comma, or a separator word with whitespace on both sides
StandaloneSeparatorAt(s, p) ==
    IF s[p] = "," THEN 1
    ELSE LET ws == {w \in SeparatorWords :
                       /\ WordAt(s, p, w)
                       /\ p > 1 /\ IsSpace(s[p-1])
                       /\ p + Len(w) <= Len(s) /\ IsSpace(s[p + Len(w)])}
         IN  IF ws = {} THEN 0
             ELSE Len(CHOOSE v \in ws : \A u \in ws : Len(v) >= Len(u))

\* the names of s: what stands between its separators
RECURSIVE SeparatedNames(_, _)
SeparatedNames(s, pos) ==
    LET hits == {p \in pos..Len(s) : StandaloneSeparatorAt(s, p) > 0}
    IN  IF hits = {} THEN << Tail0(s, pos) >>
        ELSE LET p == MinOf(hits)
             IN  << SubSeq(s, pos, p - 1) >>
                    \o SeparatedNames(s, p + StandaloneSeparatorAt(s, p))

RECURSIVE VisibleNames(_)
VisibleNames(names) ==
    IF names = <<>> THEN <<>>
    ELSE IF Strip(Head(names)) = <<>> THEN VisibleNames(Tail(names))
    ELSE << Strip(Head(names)) >> \o VisibleNames(Tail(names))

\* C3: when a pattern matched, artistList holds one entry per name that the
\* separators of the artist segment set apart, trimmed, non-empty and in
\* order, and no entry holds a separator.
C3_OneEntryPerName ==
    (Parsed /\ youtube_metadata.source = "youtube") =>
        /\ youtube_metadata.artists = VisibleNames(SeparatedNames(ArtistSegment, 1))
        /\ \A e \in 1..Len(youtube_metadata.artists) :
              \A p \in 1..Len(youtube_metadata.artists[e]) :
                 StandaloneSeparatorAt(youtube_metadata.artists[e], p) = 0

\* C4: the parser returns a record for every raw title, with a non-empty
\* artistList and one of the two platform source tags.
C4_TotalNonEmptyArtists ==
    Parsed =>
        /\ youtube_metadata # None
        /\ Len(youtube_metadata.artists) > 0
        /\ youtube_metadata.source \in {"youtube", "youtube_fallback"}

\* C17: the cleaned title of step 1 ends with neither a parenthetical nor
\* a bracketed group, and is the raw title with only trailing text removed
\* (a group that is not at the end is left as it is).
C17_NoTrailingSuffixLeft ==
    Parsed =>
        /\ NoTrailingSuffix(CleanTitle(title))
        /\ Len(CleanTitle(title)) <= Len(title)
        /\ SubSeq(title, 1, Len(CleanTitle(title))) = CleanTitle(title)

(***************************************************************************)
(* SpecMeta: get_best_metadata applied to records of the three sources.    *)
(***************************************************************************)
Str_T == <<"T">>

Str_A == <<"A">>

Str_B == <<"B">>

Str_Album == <<"L", "P">>

Str_Date == <<"2", "0", "1", "9", "-", "0", "5">>

Str_Year == <<"2", "0", "2", "0">>

\* playlist entries as the catalog API returns them
ArtistLists == { << Str_A >>, << Str_A, Str_B >> }

ReleaseDates == { << >>, Str_Date }

\* best matches and track infos as the social catalog returns them
TrackInfos == { DefaultTrackInfo, [album |-> <<"S", "a">>, year |-> <<"1", "9", "9", "9">>] }

\* records a caller may hand in as the curated record: any choice of fields
CallerFields == {"title", "artist", "artists", "album", "year"}

CallerValue(k) ==
    CASE k = "title" -> <<"c", "t">>
      [] k = "artist" -> <<"c", "a">>
      [] k = "artists" -> << <<"c", "a">>, <<"c", "b">> >>
      [] k = "album" -> <<"c", "l">>
      [] k = "year" -> <<"1", "9", "8", "0">>

CallerRecords == { [k \in ks |-> CallerValue(k)] : ks \in SUBSET CallerFields }

\* raw titles the platform search may find
BadBunnyTitle ==
    <<"B", "a", "d", " ", "B", "u", "n", "n", "y", " ", "-", " ", "D", "a", "k", "i", "t", "i",
      " ", "(", "O", "f", "f", "i", "c", "i", "a", "l", " ", "V", "i", "d", "e", "o", ")">>

FoundTitles ==
    { << >>,
      BadBunnyTitle,
      <<"a", "/", "b", " ", "-", " ", "c", "?">>,
      <<",", " ", "-", " ", "?">>,
      <<"(", "a", ")">>,
      <<"a">>,
      <<"a", " ", "-", " ", "b">>,
      <<",", "-", "b">>,
      <<"a", " ", "x", " ", "b", " ", "-", " ", "c">> }

AlbumYears == { << >>, Str_Year }

InitMeta ==
    /\ pc = "inputs"
    /\ title = << >>
    /\ youtube_metadata = None
    /\ MetaIdle
    /\ ListIdle
    /\ FileIdle
    /\ PageIdle

\* extract_spotify_playlist_with_api builds the record of one entry
ExtractSpotifyTrack ==
    /\ pc = "inputs"
    /\ spotify_metadata = None
    /\ \E artists \in ArtistLists, release_date \in ReleaseDates :
          spotify_metadata' = SpotifyTrackRecord(Str_T, artists, Str_Album, release_date)
    /\ UNCHANGED << pc, title, youtube_metadata, lastfm_metadata, final_metadata, produced,
                    album_lookups, custom_filename, filename, listVars, fileVars, pageVars >>

\* a caller hands in a curated record of its own
CallerSuppliesRecord ==
    /\ pc = "inputs"
    /\ spotify_metadata = None
    /\ \E c \in CallerRecords : spotify_metadata' = c
    /\ produced' = FALSE
    /\ UNCHANGED << pc, title, youtube_metadata, lastfm_metadata, final_metadata,
                    album_lookups, custom_filename, filename, listVars, fileVars, pageVars >>

\* search_lastfm_track finds a best match
SearchLastfmTrack ==
    /\ pc = "inputs"
    /\ lastfm_metadata = None
    /\ \E track_info \in TrackInfos :
          lastfm_metadata' = LastfmRecord(<<"s", "t">>, <<"s", "a">>, track_info)
    /\ UNCHANGED << pc, title, youtube_metadata, spotify_metadata, final_metadata, produced,
                    album_lookups, custom_filename, filename, listVars, fileVars, pageVars >>

\* the platform search finds a video and its title is parsed
ParseFoundTitle ==
    /\ pc = "inputs"
    /\ youtube_metadata = None
    /\ \E t \in FoundTitles :
          /\ title' = t
          /\ youtube_metadata' = extract_metadata_from_youtube_title(t)
    /\ UNCHANGED << pc, metaVars, listVars, fileVars, pageVars >>

\* a caller hands in an empty record in place of the parsed title
CallerSuppliesEmptyTitle ==
    /\ pc = "inputs"
    /\ youtube_metadata = None
    /\ youtube_metadata' = EmptyDict
    /\ produced' = FALSE
    /\ UNCHANGED << pc, title, spotify_metadata, lastfm_metadata, final_metadata,
                    album_lookups, custom_filename, filename, listVars, fileVars, pageVars >>

\* a caller hands in an empty social record
CallerSuppliesEmptySocial ==
    /\ pc = "inputs"
    /\ lastfm_metadata = None
    /\ lastfm_metadata' = EmptyDict
    /\ produced' = FALSE
    /\ UNCHANGED << pc, title, youtube_metadata, spotify_metadata, final_metadata,
                    album_lookups, custom_filename, filename, listVars, fileVars, pageVars >>

GetBestMetadata ==
    /\ pc = "inputs"
    /\ \E album_year \in AlbumYears :
          final_metadata' =
              get_best_metadata(spotify_metadata, lastfm_metadata, youtube_metadata, album_year)
    /\ album_lookups' =
          IF AlbumLookupMade(spotify_metadata, lastfm_metadata, youtube_metadata)
          THEN album_lookups + 1 ELSE album_lookups
    /\ pc' = "resolved"
    /\ UNCHANGED << title, youtube_metadata, spotify_metadata, lastfm_metadata, produced,
                    custom_filename, filename, listVars, fileVars, pageVars >>

\* the custom_filename argument: None, or a name the user gave
CustomFilenames == { << >>, <<"m", ":">> }

\* step 5 of download_track (which resolves with no curated record)
NameFile ==
    /\ pc = "resolved"
    /\ produced
    /\ spotify_metadata = None
    /\ youtube_metadata # None
    /\ \E custom \in CustomFilenames :
          /\ custom_filename' = custom
          /\ filename' = ChooseFilename(custom, final_metadata, title)
    /\ pc' = "named"
    /\ UNCHANGED << title, youtube_metadata, spotify_metadata, lastfm_metadata, final_metadata,
                    produced, album_lookups, listVars, fileVars, pageVars >>

NextMeta ==
    \/ NameFile
    \/ ExtractSpotifyTrack
    \/ CallerSuppliesRecord
    \/ SearchLastfmTrack
    \/ ParseFoundTitle
    \/ CallerSuppliesEmptyTitle
    \/ CallerSuppliesEmptySocial
    \/ GetBestMetadata

SpecMeta == InitMeta /\ [][NextMeta]_vars

(***************************************************************************)
(* Resolver claims (checked under SpecMeta).                               *)
(***************************************************************************)
Resolved == pc = "resolved"

\* the result is the curated record field by field, defaults where it
\* carries none, under the curated tag
CuratedWins ==
    /\ final_metadata.source = "spotify"
    /\ final_metadata.title = Get(spotify_metadata, "title", UnknownTitle)
    /\ final_metadata.artist = Get(spotify_metadata, "artist", UnknownArtist)
    /\ final_metadata.artists = Get(spotify_metadata, "artists", << UnknownArtist >>)
    /\ final_metadata.album = Get(spotify_metadata, "album", UnknownAlbum)
    /\ final_metadata.year = Get(spotify_metadata, "year", << >>)

\* C1 as stated: for every curated record that is not absent, whatever the
\* social record and the parsed title, the result carries the curated tag
\* and the curated record's fields (defaults where it lacks them).
C1_CuratedPriorityAsStated ==
    (Resolved /\ spotify_metadata # None) => CuratedWins

\* C1 amended: the same for every curated record that is neither absent
\* nor empty (an empty record counts as absent).
C1_CuratedPriority ==
    (Resolved /\ spotify_metadata # None /\ DOMAIN spotify_metadata # {}) => CuratedWins

C1_Witness ==
    /\ Resolved
    /\ spotify_metadata # None
    /\ DOMAIN spotify_metadata = {"title", "year"}
    /\ lastfm_metadata # None
    /\ youtube_metadata # None

\* C5: when the inputs come from the program's producers (or are absent),
\* the resolved artist is the ", "-join of the resolved artistList.
C5_ArtistIsJoinOfList ==
    (Resolved /\ produced) =>
        final_metadata.artist = Join(CommaSpace, final_metadata.artists)

C5_Witness ==
    /\ Resolved
    /\ produced
    /\ final_metadata.source = "youtube"
    /\ Len(final_metadata.artists) = 2

\* C6: the record download_track resolves (no curated record, any social
\* outcome, the parsed platform title) has a non-empty title.
C6_TitleNeverEmpty ==
    (Resolved /\ produced /\ spotify_metadata = None /\ youtube_metadata # None) =>
        final_metadata.title # << >>

\* out is s with the reserved characters removed and every other
\* character kept, in order
RemovesReserved(out, s) ==
    LET keep == {p \in 1..Len(s) : s[p] \notin ReservedChars}
    IN  /\ Len(out) = Cardinality(keep)
        /\ \A p \in keep : out[Cardinality({q \in keep : q <= p})] = s[p]

\* the title followed by the artist names, joined with " - "
TitleThenArtists ==
    Join(DashSep, << final_metadata.title >> \o final_metadata.artists)

\* C12: with no custom name, the file name of a record with a non-empty
\* title is the title followed by the artist names joined with " - ",
\* reserved characters removed and the others kept in order; when that is
\* empty or the title is empty, it is the sanitized raw platform title.
\* The raw title "Bad Bunny - Dakiti (Official Video)" with no provider
\* data gives "Dakiti - Bad Bunny".
C12_FilenameSynthesis ==
    (pc = "named" /\ custom_filename = << >>) =>
        /\ \A p \in 1..Len(filename) : filename[p] \notin ReservedChars
        /\ IF final_metadata.title # << >>
              /\ \E p \in 1..Len(TitleThenArtists) : TitleThenArtists[p] \notin ReservedChars
           THEN RemovesReserved(filename, TitleThenArtists)
           ELSE RemovesReserved(filename, title)
        /\ (title = BadBunnyTitle /\ lastfm_metadata = None) =>
              filename = <<"D", "a", "k", "i", "t", "i", " ", "-", " ",
                           "B", "a", "d", " ", "B", "u", "n", "n", "y">>

C12_Witness ==
    /\ pc = "named"
    /\ custom_filename = << >>
    /\ lastfm_metadata = None
    /\ title = <<"a", "/", "b", " ", "-", " ", "c", "?">>
    /\ filename = <<"c", " ", "-", " ", "a", "b">>

\* C15: when the curated record, the social record and the parsed title
\* are each absent or empty, the result is the record of defaults under
\* the tag "combined" and no provider lookup is made.
C15_ResolverDefaults ==
    (Resolved /\ ~Truthy(spotify_metadata) /\ ~Truthy(lastfm_metadata)
        /\ ~Truthy(youtube_metadata)) =>
            /\ final_metadata = [title |-> UnknownTitle,
                                 artist |-> UnknownArtist,
                                 artists |-> << UnknownArtist >>,
                                 album |-> UnknownAlbum,
                                 year |-> << >>,
                                 source |-> "combined"]
            /\ album_lookups = 0

C15_Witness ==
    /\ Resolved
    /\ spotify_metadata = None
    /\ lastfm_metadata # None /\ ~Truthy(lastfm_metadata)
    /\ youtube_metadata # None /\ ~Truthy(youtube_metadata)

(***************************************************************************)
(* download_track as the playlist loop sees it: the files in the folder    *)
(* and the path (or None) it returns.                                      *)
(***************************************************************************)
\* the extensions step 7 tries, in order
AudioExtOrder == <<"m4a", "aac", "mp4", "webm">>

\* the suffixes add_metadata is called for
TaggableExts == {"m4a", "mp4"}

\* positions of the files of d named fname.ext
NamedFiles(d, fname, ext) ==
    {k \in 1..Len(d) : d[k].name = fname /\ d[k].ext = ext}

\* step 7: the file named after this track, else the newest audio file of
\* the folder, else None
LocateFile(d, fname) ==
    LET exts == {e \in 1..Len(AudioExtOrder) :
                    NamedFiles(d, fname, AudioExtOrder[e]) # {}}
    IN  IF exts # {}
        THEN d[MinOf(NamedFiles(d, fname, AudioExtOrder[MinOf(exts)]))]
        ELSE IF Len(d) > 0 THEN d[Len(d)]
        ELSE None

\* the fetch writes file f: it replaces a file of the same name and is the
\* newest of the folder
WriteFile(d, f) ==
    SelectSeq(d, LAMBDA g : ~(g.name = f.name /\ g.ext = f.ext)) \o << f >>

\* download_track for the i-th query.  search: what the platform search
\* did ("raise", "none", "found"); fname: the synthesized file name;
\* fetch: what the audio fetch did ("raise", "nothing", "renamed", or the
\* extension of the file it wrote under fname); tag_raises: whether
\* embedding the tags raises inside add_metadata.
download_track(d, i, search, fname, fetch, tag_raises) ==
    IF search # "found" \/ fetch = "raise"
    THEN [result |-> None, disk |-> d, left_file |-> FALSE, tag_raised |-> FALSE,
          raised |-> FALSE]
    ELSE LET d2 == CASE fetch = "nothing" -> d
                     [] fetch = "renamed" ->
                            WriteFile(d, [name |-> "renamed", ext |-> "m4a", by |-> i])
                     [] OTHER ->
                            WriteFile(d, [name |-> fname, ext |-> fetch, by |-> i])
             f == LocateFile(d2, fname)
         IN  [result |-> f,
              disk |-> d2,
              left_file |-> fetch # "nothing",
              tag_raised |-> IF f = None THEN FALSE
                             ELSE f.ext \in TaggableExts /\ tag_raises,
              raised |-> FALSE]

\* mutant of RecordOutcome: the except branch forgets the failed query
RecordOutcomeDropsRaised(files, failed, query, call) ==
    IF call.raised THEN [files |-> files, failed |-> failed]
    ELSE IF call.result # None
    THEN [files |-> Append(files, [name |-> call.result.name, ext |-> call.result.ext]),
          failed |-> failed]
    ELSE [files |-> files, failed |-> Append(failed, query)]

\* the body of the playlist loop after the call: the path goes to
\* downloaded_files, a None result or an exception puts the query in
\* failed_downloads
RecordOutcome(files, failed, query, call) ==
    IF call.raised THEN [files |-> files, failed |-> Append(failed, query)]
    ELSE IF call.result # None
    THEN [files |-> Append(files, [name |-> call.result.name, ext |-> call.result.ext]),
          failed |-> failed]
    ELSE [files |-> files, failed |-> Append(failed, query)]

(***************************************************************************)
(* SpecPlaylist: download_playlist_from_source.                            *)
(***************************************************************************)
InputTypes == {"file", "youtube", "spotify", "search"}

\* the track lists an extractor may yield, the empty one included: the
\* first n queries of a playlist in which a query comes back
Playlist == [k \in 1..(MaxTracks + 1) |-> IF k % 2 = 1 THEN "q1" ELSE "q2"]

TrackLists == { SubSeq(Playlist, 1, n) : n \in 0..MaxTracks }

FileNames == {"n1", "n2"}

Searches == {"raise", "none", "found"}

Fetches == {"raise", "nothing", "renamed", "m4a", "webm"}

\* the playlist folder may exist already and hold a file
InitialDisks == { << >>, << [name |-> "old", ext |-> "m4a", by |-> 0] >> }

InitPlaylist ==
    /\ pc = "start"
    /\ title = << >>
    /\ youtube_metadata = None
    /\ MetaIdle
    /\ FileIdle
    /\ PageIdle
    /\ source = << >>
    /\ source_exists = FALSE
    /\ input_type \in InputTypes
    /\ extract_only \in BOOLEAN
    /\ disk \in InitialDisks
    /\ playlist_file = "none"
    /\ tracks = << >>
    /\ idx = 0
    /\ downloaded_files = << >>
    /\ failed_downloads = << >>
    /\ download_path = "root"
    /\ original_path = "root"
    /\ attempts = << >>
    /\ outcomes = << >>
    /\ returned = << >>

ReturnEmpty ==
    /\ pc' = "done"
    /\ returned' = << >>
    /\ UNCHANGED << fileVars, title, youtube_metadata, metaVars, source, source_exists,
                    input_type, extract_only, tracks, idx, downloaded_files, failed_downloads,
                    download_path, original_path, disk, attempts, outcomes, pageVars >>

\* create_playlist_file_from_spotify returned None: the API gave tracks but
\* the list could not be written
PlaylistFileNotWritten ==
    /\ pc = "start"
    /\ input_type = "spotify"
    /\ playlist_file' = "none"
    /\ ReturnEmpty

\* the curated list (or the manual template) is on file and extract_only
\* is set
ExtractOnlyReturn ==
    /\ pc = "start"
    /\ input_type = "spotify"
    /\ extract_only
    /\ playlist_file' \in {"list", "template"}
    /\ ReturnEmpty

UnrecognizedInput ==
    /\ pc = "start"
    /\ input_type = "search"
    /\ UNCHANGED playlist_file
    /\ ReturnEmpty

\* the file or the platform playlist yields no track; so does the manual
\* template, and a curated list none of whose lines is read as a query
NoTracks ==
    /\ pc = "start"
    /\ \/ input_type \in {"file", "youtube"} /\ UNCHANGED playlist_file
       \/ input_type = "spotify" /\ ~extract_only /\ playlist_file' \in {"list", "template"}
    /\ ReturnEmpty

\* tracks were found: the folder is made, download_path is swapped and the
\* loop starts
StartLoop ==
    /\ pc = "start"
    /\ \/ input_type \in {"file", "youtube"} /\ UNCHANGED playlist_file
       \/ input_type = "spotify" /\ ~extract_only /\ playlist_file' = "list"
    /\ \E ts \in TrackLists \ { << >> } : tracks' = ts
    /\ original_path' = download_path
    /\ download_path' = "folder"
    /\ idx' = 1
    /\ pc' = "loop"
    /\ UNCHANGED << fileVars, title, youtube_metadata, metaVars, source, source_exists,
                    input_type, extract_only, downloaded_files, failed_downloads, disk,
                    attempts, outcomes, returned, pageVars >>

\* one turn of the loop: download_track(track['query']) and its outcome
DownloadNext ==
    /\ pc = "loop"
    /\ idx <= Len(tracks)
    /\ \E search \in Searches, fname \in FileNames, fetch \in Fetches,
          tag_raises \in BOOLEAN, escapes \in BOOLEAN :
          LET done == download_track(disk, idx, search, fname, fetch, tag_raises)
              call == IF escapes THEN [done EXCEPT !.raised = TRUE, !.result = None]
                      ELSE done
              rec == RecordOutcome(downloaded_files, failed_downloads, tracks[idx], call)
          IN  /\ disk' = call.disk
              /\ downloaded_files' = rec.files
              /\ failed_downloads' = rec.failed
              /\ outcomes' = Append(outcomes,
                                     [result |-> call.result, left_file |-> call.left_file,
                                      tag_raised |-> call.tag_raised, raised |-> call.raised])
    /\ attempts' = Append(attempts, tracks[idx])
    /\ idx' = idx + 1
    /\ UNCHANGED << fileVars, pc, title, youtube_metadata, metaVars, source, source_exists,
                    input_type, extract_only, playlist_file, tracks, download_path,
                    original_path, returned, pageVars >>

\* mutant of FinishPlaylist: download_path is left on the playlist folder
FinishPlaylistNoRestore ==
    /\ pc = "loop"
    /\ idx > Len(tracks)
    /\ returned' = downloaded_files
    /\ pc' = "done"
    /\ UNCHANGED << fileVars, title, youtube_metadata, metaVars, source, source_exists,
                    input_type, extract_only, playlist_file, tracks, idx, downloaded_files,
                    failed_downloads, download_path, original_path, disk, attempts, outcomes,
                    pageVars >>

\* after the last track: the path is restored and the files are returned
FinishPlaylist ==
    /\ pc = "loop"
    /\ idx > Len(tracks)
    /\ download_path' = original_path
    /\ returned' = downloaded_files
    /\ pc' = "done"
    /\ UNCHANGED << fileVars, title, youtube_metadata, metaVars, source, source_exists,
                    input_type, extract_only, playlist_file, tracks, idx, downloaded_files,
                    failed_downloads, original_path, disk, attempts, outcomes, pageVars >>

NextPlaylist ==
    \/ PlaylistFileNotWritten
    \/ ExtractOnlyReturn
    \/ UnrecognizedInput
    \/ NoTracks
    \/ StartLoop
    \/ DownloadNext
    \/ FinishPlaylist

SpecPlaylist == InitPlaylist /\ [][NextPlaylist]_vars

(***************************************************************************)
(* Playlist claims (checked under SpecPlaylist).                           *)
(***************************************************************************)
Done == pc = "done"

\* C7: a call of download_track whose fetch left no file for the track, or
\* whose tag embedding raised, returns None and its query is recorded as
\* failed; a returned path is the file this call's own fetch wrote.
C7_FetchAndTagFailuresFail ==
    \A k \in 1..Len(outcomes) :
        /\ (~outcomes[k].left_file \/ outcomes[k].tag_raised) => outcomes[k].result = None
        /\ outcomes[k].result # None => outcomes[k].result.by = k

\* the queries of the first n calls that raised or returned None, in order
RECURSIVE FailedQueries(_)
FailedQueries(n) ==
    IF n = 0 THEN << >>
    ELSE IF outcomes[n].raised \/ outcomes[n].result = None
    THEN Append(FailedQueries(n - 1), tracks[n])
    ELSE FailedQueries(n - 1)

\* C8: the loop calls download_track once per query, in list order, and
\* every call adds exactly one entry to downloaded_files or to
\* failed_downloads; at the end all queries are accounted for.
C8_EveryTrackAttemptedOnce ==
    /\ pc = "loop" =>
          /\ attempts = SubSeq(tracks, 1, idx - 1)
          /\ Len(downloaded_files) + Len(failed_downloads) = idx - 1
          /\ idx <= Len(tracks) + 1
    /\ (Done /\ tracks # << >>) =>
          /\ attempts = tracks
          /\ Len(downloaded_files) + Len(failed_downloads) = Len(tracks)
          /\ returned = downloaded_files
          /\ failed_downloads = FailedQueries(Len(tracks))

C8_Witness ==
    /\ Done
    /\ Len(tracks) = MaxTracks
    /\ outcomes[1].raised
    /\ Len(downloaded_files) = MaxTracks - 1

\* C9: with extract_only set, download_playlist_from_source never calls
\* download_track, whatever the kind of the input.
C9_ExtractOnlyNeverDownloads ==
    extract_only => attempts = << >>

\* C16: whenever download_playlist_from_source has returned, download_path
\* is what it was before the call ("root"); while the loop runs, and so at
\* every download_track call, it is the playlist folder.
C16_PathRestored ==
    /\ Done => download_path = "root"
    /\ pc = "start" => download_path = "root"
    /\ pc = "loop" => download_path = "folder" /\ original_path = "root"

C16_Witness ==
    /\ Done
    /\ download_path = "root"
    /\ Len(tracks) = MaxTracks
    /\ outcomes[1].raised
    /\ ~outcomes[MaxTracks].raised /\ outcomes[MaxTracks].result = None

(***************************************************************************)
(* detect_input_type.                                                      *)
(***************************************************************************)
\* sub in s
Contains(s, sub) ==
    \E i \in 1..(Len(s) + 1 - Len(sub)) : SubSeq(s, i, i + Len(sub) - 1) = sub

\* s.endswith(suffix)
EndsWith(s, suffix) ==
    Len(s) >= Len(suffix) /\ SubSeq(s, Len(s) - Len(suffix) + 1, Len(s)) = suffix

Mark_txt == <<".", "t", "x", "t">>

Mark_youtube == <<"y", "o", "u", "t", "u", "b", "e", ".", "c", "o", "m">>

Mark_youtu_be == <<"y", "o", "u", "t", "u", ".", "b", "e">>

Mark_spotify == <<"s", "p", "o", "t", "i", "f", "y", ".", "c", "o", "m">>

Mark_playlist == <<"p", "l", "a", "y", "l", "i", "s", "t">>

Mark_list == <<"l", "i", "s", "t", "=">>

\* mutant of detect_input_type: the catalog test comes before the video test
DetectCatalogFirst(input_str, exists) ==
    IF EndsWith(input_str, Mark_txt) /\ exists THEN "file"
    ELSE IF Contains(input_str, Mark_spotify) /\ Contains(input_str, Mark_playlist)
    THEN "spotify"
    ELSE IF Contains(input_str, Mark_youtube)
              /\ (Contains(input_str, Mark_playlist) \/ Contains(input_str, Mark_list))
    THEN "youtube"
    ELSE IF Contains(input_str, Mark_youtu_be) THEN "youtube"
    ELSE "search"

\* exists: what os.path.exists(input_str) answers
detect_input_type(input_str, exists) ==
    IF EndsWith(input_str, Mark_txt) /\ exists THEN "file"
    ELSE IF Contains(input_str, Mark_youtube)
              /\ (Contains(input_str, Mark_playlist) \/ Contains(input_str, Mark_list))
    THEN "youtube"
    ELSE IF Contains(input_str, Mark_youtu_be) THEN "youtube"
    ELSE IF Contains(input_str, Mark_spotify) /\ Contains(input_str, Mark_playlist)
    THEN "spotify"
    ELSE "search"

(***************************************************************************)
(* SpecDetect: main classifies the input string.                           *)
(***************************************************************************)
\* parts an input string is made of
SourceParts ==
    { Mark_youtube, Mark_youtu_be, Mark_spotify, <<"/">> \o Mark_playlist,
      <<"?">> \o Mark_list, Mark_txt, <<"a">> }

Sources == { Flatten(ps) : ps \in UNION { [1..n -> SourceParts] : n \in 0..MaxMarkers } }

InitDetect ==
    /\ pc = "detect"
    /\ title = << >>
    /\ youtube_metadata = None
    /\ MetaIdle
    /\ FileIdle
    /\ PageIdle
    /\ source \in Sources
    /\ source_exists \in BOOLEAN
    /\ input_type = "search"
    /\ extract_only = FALSE
    /\ playlist_file = "none"
    /\ tracks = << >>
    /\ idx = 0
    /\ downloaded_files = << >>
    /\ failed_downloads = << >>
    /\ download_path = "root"
    /\ original_path = "root"
    /\ disk = << >>
    /\ attempts = << >>
    /\ outcomes = << >>
    /\ returned = << >>

DetectInputType ==
    /\ pc = "detect"
    /\ input_type' = detect_input_type(source, source_exists)
    /\ pc' = "detected"
    /\ UNCHANGED << title, youtube_metadata, metaVars, fileVars, source, source_exists,
                    extract_only, playlist_file, tracks, idx, downloaded_files,
                    failed_downloads, download_path, original_path, disk, attempts, outcomes,
                    returned, pageVars >>

NextDetect == DetectInputType

SpecDetect == InitDetect /\ [][NextDetect]_vars

(***************************************************************************)
(* Detection claims (checked under SpecDetect).                            *)
(***************************************************************************)
\* the marker occurs somewhere in the source
Has(marker) ==
    \E i \in 0..Len(source), j \in 0..Len(source) :
        i + Len(marker) + j = Len(source)
            /\ \A k \in 1..Len(marker) : source[i + k] = marker[k]

NamesExistingTextFile ==
    /\ source_exists
    /\ Len(source) >= 4
    /\ \A k \in 1..4 : source[Len(source) - 4 + k] = Mark_txt[k]

VideoMarkers == (Has(Mark_youtube) /\ (Has(Mark_playlist) \/ Has(Mark_list))) \/ Has(Mark_youtu_be)

CatalogMarkers == Has(Mark_spotify) /\ Has(Mark_playlist)

\* C13: 'file' for an existing .txt file whatever markers it holds; else
\* 'youtube' when the video markers are present, catalog markers or not;
\* else 'spotify' when the catalog markers are present; else 'search'.
C13_DetectionPrecedence ==
    pc = "detected" =>
        /\ input_type \in InputTypes
        /\ NamesExistingTextFile => input_type = "file"
        /\ (~NamesExistingTextFile /\ VideoMarkers) => input_type = "youtube"
        /\ (~NamesExistingTextFile /\ ~VideoMarkers /\ CatalogMarkers) => input_type = "spotify"
        /\ (~NamesExistingTextFile /\ ~VideoMarkers /\ ~CatalogMarkers) => input_type = "search"

C13_Witness ==
    /\ pc = "detected"
    /\ ~NamesExistingTextFile
    /\ VideoMarkers
    /\ CatalogMarkers
    /\ input_type = "youtube"

(***************************************************************************)
(* extract_spotify_playlist_with_api: the pages of a playlist.             *)
(***************************************************************************)
\* one artist of an entry, and one that lacks the key 'name'
ArtistObject == [name |-> <<"r">>]

ArtistWithoutName == [id |-> <<"r">>]

AlbumObject == [name |-> Str_Album, release_date |-> Str_Date]

\* the entries of a playlist: two tracks, an entry whose track is None, one
\* with an empty name, one with no artist, and one whose artist lacks 'name'
PlaylistItems ==
    { [track |-> [name |-> <<"a">>, artists |-> << ArtistObject >>, album |-> AlbumObject]],
      [track |-> [name |-> <<"b">>, artists |-> << ArtistObject, ArtistObject >>,
                  album |-> AlbumObject]],
      [track |-> None],
      [track |-> [name |-> << >>, artists |-> << ArtistObject >>, album |-> AlbumObject]],
      [track |-> [name |-> <<"a">>, artists |-> << >>, album |-> AlbumObject]],
      [track |-> [name |-> <<"b">>, artists |-> << ArtistWithoutName >>,
                  album |-> AlbumObject]] }

\* `track and track.get('name') and track.get('artists')`
ItemAccepted(item) ==
    /\ item.track # None
    /\ item.track.name # << >>
    /\ item.track.artists # << >>

\* the body of the for loop raises: artist['name'] of an artist without it
ItemRaises(item) ==
    /\ ItemAccepted(item)
    /\ \E k \in 1..Len(item.track.artists) : "name" \notin DOMAIN item.track.artists[k]

\* the record appended for an accepted entry
ItemRecord(item) ==
    SpotifyTrackRecord(item.track.name,
                       [k \in 1..Len(item.track.artists) |-> item.track.artists[k].name],
                       item.track.album.name, item.track.album.release_date)

\* the for loop over results['items']
RECURSIVE RecordsOfItems(_)
RecordsOfItems(items) ==
    IF items = << >> THEN << >>
    ELSE IF ItemAccepted(Head(items))
    THEN << ItemRecord(Head(items)) >> \o RecordsOfItems(Tail(items))
    ELSE RecordsOfItems(Tail(items))

\* results['items'] of page n, and whether results['next'] is set
PageItems(items, size, n) ==
    SubSeq(items, (n - 1) * size + 1, IF n * size < Len(items) THEN n * size ELSE Len(items))

HasNextPage(items, size, n) == n * size < Len(items)

\* mutant of OnApiError: the tracks collected so far are returned
OnApiErrorReturnsCollected(so_far) == so_far

\* `except Exception: return None`
OnApiError(so_far) == NoList

(***************************************************************************)
(* SpecPages: extract_spotify_playlist_with_api, one turn of the while     *)
(* loop per step.                                                          *)
(***************************************************************************)
InitPages ==
    /\ pc = "call"
    /\ title = << >>
    /\ youtube_metadata = None
    /\ MetaIdle
    /\ ListIdle
    /\ api_tracks = << >>
    /\ file_text = << >>
    /\ loaded_tracks = << >>
    /\ playlist_items \in UNION { [1..n -> PlaylistItems] : n \in 0..MaxItems }
    /\ page_size \in 1..MaxPageSize
    /\ page_no = 0
    /\ collected = << >>

\* `if not self.spotify_client: return None`
NoClient ==
    /\ pc = "call"
    /\ api_tracks' = NoList
    /\ pc' = "unavailable"
    /\ UNCHANGED << title, youtube_metadata, metaVars, listVars, file_text, loaded_tracks,
                    pageVars >>

\* playlist() and playlist_tracks() answer: results is the first page
FetchFirstPage ==
    /\ pc = "call"
    /\ page_no' = 1
    /\ collected' = << >>
    /\ pc' = "page"
    /\ UNCHANGED << title, youtube_metadata, metaVars, listVars, fileVars, playlist_items,
                    page_size >>

\* the playlist id cannot be cut out of the URL, or the first fetch raises
FirstFetchRaises ==
    /\ pc = "call"
    /\ api_tracks' = OnApiError(collected)
    /\ pc' = "raised"
    /\ UNCHANGED << title, youtube_metadata, metaVars, listVars, file_text, loaded_tracks,
                    pageVars >>

\* an entry of the page raises inside the for loop
EntryRaises ==
    /\ pc = "page"
    /\ LET items == PageItems(playlist_items, page_size, page_no)
           bad == {k \in 1..Len(items) : ItemRaises(items[k])}
       IN  /\ bad # {}
           /\ collected' = collected \o RecordsOfItems(SubSeq(items, 1, MinOf(bad) - 1))
           /\ api_tracks' = OnApiError(collected')
    /\ pc' = "raised"
    /\ UNCHANGED << title, youtube_metadata, metaVars, listVars, file_text, loaded_tracks,
                    playlist_items, page_size, page_no >>

\* the page is processed and results['next'] is set: the next page is fetched
NextPage ==
    /\ pc = "page"
    /\ LET items == PageItems(playlist_items, page_size, page_no)
       IN  /\ \A k \in 1..Len(items) : ~ItemRaises(items[k])
           /\ collected' = collected \o RecordsOfItems(items)
    /\ HasNextPage(playlist_items, page_size, page_no)
    /\ page_no' = page_no + 1
    /\ UNCHANGED << pc, title, youtube_metadata, metaVars, listVars, fileVars, playlist_items,
                    page_size >>

\* the page is processed and the fetch of the next page raises
NextPageRaises ==
    /\ pc = "page"
    /\ LET items == PageItems(playlist_items, page_size, page_no)
       IN  /\ \A k \in 1..Len(items) : ~ItemRaises(items[k])
           /\ collected' = collected \o RecordsOfItems(items)
    /\ HasNextPage(playlist_items, page_size, page_no)
    /\ api_tracks' = OnApiError(collected')
    /\ pc' = "raised"
    /\ UNCHANGED << title, youtube_metadata, metaVars, listVars, file_text, loaded_tracks,
                    playlist_items, page_size, page_no >>

\* the page is processed and results['next'] is not set: break, return tracks
LastPage ==
    /\ pc = "page"
    /\ LET items == PageItems(playlist_items, page_size, page_no)
       IN  /\ \A k \in 1..Len(items) : ~ItemRaises(items[k])
           /\ collected' = collected \o RecordsOfItems(items)
    /\ ~HasNextPage(playlist_items, page_size, page_no)
    /\ api_tracks' = collected'
    /\ pc' = "returned"
    /\ UNCHANGED << title, youtube_metadata, metaVars, listVars, file_text, loaded_tracks,
                    playlist_items, page_size, page_no >>

NextPages ==
    \/ NoClient
    \/ FetchFirstPage
    \/ FirstFetchRaises
    \/ EntryRaises
    \/ NextPage
    \/ NextPageRaises
    \/ LastPage

SpecPages == InitPages /\ [][NextPages]_vars

(***************************************************************************)
(* Pagination claims (checked under SpecPages).                            *)
(***************************************************************************)
\* the entry has a track name and at least one artist
NamedWithArtist(item) ==
    /\ "name" \in DOMAIN item.track
    /\ item.track.name # << >>
    /\ item.track.artists # << >>

\* the number of pages of the playlist (an empty playlist has one empty page)
NumPages ==
    IF playlist_items = << >> THEN 1
    ELSE CHOOSE n \in 1..Len(playlist_items) :
            /\ n * page_size >= Len(playlist_items)
            /\ (n - 1) * page_size < Len(playlist_items)

\* C18: the call returns the full list (one record for every entry with a
\* track name and an artist, in playlist order, over all pages) after the
\* last page and no page beyond it, or it returns None; when a fetch or an
\* entry raised, or the client is missing, it returns None and never the
\* tracks collected from the earlier pages.
C18_AllOrNothing ==
    /\ pc \in {"raised", "unavailable"} => api_tracks = NoList
    /\ pc = "returned" =>
          LET named == SelectSeq(playlist_items, NamedWithArtist)
          IN  /\ page_no = NumPages
              /\ Len(api_tracks) = Len(named)
              /\ \A k \in 1..Len(named) :
                    /\ api_tracks[k].title = named[k].track.name
                    /\ Len(api_tracks[k].artists) = Len(named[k].track.artists)
    /\ pc = "page" => page_no <= NumPages

C18_Witness ==
    /\ pc = "returned"
    /\ page_no = 2
    /\ Len(playlist_items) = 3
    /\ Len(api_tracks) = 2
    /\ ~NamedWithArtist(playlist_items[2])

(***************************************************************************)
(* The query-list file: create_playlist_file_from_spotify writes it and    *)
(* load_tracks_from_file reads it.                                         *)
(***************************************************************************)
HeaderTitle ==
    <<"#", " ", "P", "l", "a", "y", "l", "i", "s", "t", " ", "a", "u", "t",
      "o", "m", "a", "t", "i", "c", "a", "l", "l", "y", " ", "e", "x", "t",
      "r", "a", "c", "t", "e", "d", " ", "f", "r", "o", "m", " ", "S", "p",
      "o", "t", "i", "f", "y", "\n">>

HeaderUrlPrefix ==
    <<"#", " ", "U", "R", "L", ":", " ">>

HeaderTotalPrefix ==
    <<"#", " ", "T", "o", "t", "a", "l", " ", "t", "r", "a", "c", "k", "s",
      ":", " ">>

HeaderMethod ==
    <<"#", " ", "M", "e", "t", "h", "o", "d", ":", " ", "O", "f", "f", "i",
      "c", "i", "a", "l", " ", "S", "p", "o", "t", "i", "f", "y", " ", "A",
      "P", "I", "\n">>

HeaderCreatedPrefix ==
    <<"#", " ", "C", "r", "e", "a", "t", "e", "d", ":", " ">>

SampleUrl ==
    <<"h", "t", "t", "p", "s", ":", "/", "/", "o", "p", "e", "n", ".", "s",
      "p", "o", "t", "i", "f", "y", ".", "c", "o", "m", "/", "p", "l", "a",
      "y", "l", "i", "s", "t", "/", "p", "1", "?", "s", "i", "=", "1">>

SampleTime ==
    <<"2", "0", "2", "4", "-", "0", "1", "-", "0", "1", " ", "0", "0", ":",
      "0", "0", ":", "0", "0">>

Newline == <<"\n">>

\* str(n) for the track counts of the model
Decimal(n) ==
    IF n < 10 THEN << <<"0", "1", "2", "3", "4", "5", "6", "7", "8", "9">>[n + 1] >>
    ELSE << <<"0", "1", "2", "3", "4", "5", "6", "7", "8", "9">>[(n \div 10) + 1],
            <<"0", "1", "2", "3", "4", "5", "6", "7", "8", "9">>[(n % 10) + 1] >>

\* the lines f.write(f"{track['query']}\n") adds, one per track
RECURSIVE QueryLines(_)
QueryLines(ts) ==
    IF ts = << >> THEN << >>
    ELSE Head(ts).query \o Newline \o QueryLines(Tail(ts))

\* the text create_playlist_file_from_spotify writes for the tracks ts
PlaylistFileText(spotify_url, ts, now) ==
    HeaderTitle
        \o HeaderUrlPrefix \o spotify_url \o Newline
        \o HeaderTotalPrefix \o Decimal(Len(ts)) \o Newline
        \o HeaderMethod
        \o HeaderCreatedPrefix \o now \o Newline \o Newline
        \o QueryLines(ts)

\* f.readlines(): the text cut after every newline
RECURSIVE ReadLines(_)
ReadLines(text) ==
    LET nl == {k \in 1..Len(text) : text[k] = "\n"}
    IN  IF text = << >> THEN << >>
        ELSE IF nl = {} THEN << text >>
        ELSE << SubSeq(text, 1, MinOf(nl)) >> \o ReadLines(Tail0(text, MinOf(nl) + 1))

\* mutant of TracksOfLines: the comment test is made on the untrimmed line
RECURSIVE TracksOfLinesRawComment(_)
TracksOfLinesRawComment(lines) ==
    IF lines = << >> THEN << >>
    ELSE LET line == Strip(Head(lines))
         IN  IF line # << >> /\ Head(lines)[1] # "#"
             THEN << [title |-> line, query |-> line, artist |-> << >>] >>
                      \o TracksOfLinesRawComment(Tail(lines))
             ELSE TracksOfLinesRawComment(Tail(lines))

\* the loop of load_tracks_from_file over the lines read
RECURSIVE TracksOfLines(_)
TracksOfLines(lines) ==
    IF lines = << >> THEN << >>
    ELSE LET line == Strip(Head(lines))
         IN  IF line # << >> /\ line[1] # "#"
             THEN << [title |-> line, query |-> line, artist |-> << >>] >>
                      \o TracksOfLines(Tail(lines))
             ELSE TracksOfLines(Tail(lines))

load_tracks_from_file(text) == TracksOfLines(ReadLines(text))

TemplateTitle ==
    <<"#", " ", "M", "a", "n", "u", "a", "l", " ", "P", "l", "a", "y", "l",
      "i", "s", "t", " ", "-", " ", "S", "p", "o", "t", "i", "f", "y", "\n">>

TemplateUrlPrefix ==
    <<"#", " ", "O", "r", "i", "g", "i", "n", "a", "l", " ", "U", "R", "L",
      ":", " ">>

TemplateBody ==
    <<"#", " ", "S", "p", "o", "t", "i", "f", "y", " ", "A", "P", "I", " ",
      "d", "i", "d", " ", "n", "o", "t", " ", "w", "o", "r", "k", "\n",
      "#", " ", "I", "n", "s", "t", "r", "u", "c", "t", "i", "o", "n", "s",
      ":", "\n", "#", " ", "1", ".", " ", "O", "p", "e", "n", " ", "y",
      "o", "u", "r", " ", "p", "l", "a", "y", "l", "i", "s", "t", " ", "i",
      "n", " ", "S", "p", "o", "t", "i", "f", "y", "\n", "#", " ", "2",
      ".", " ", "C", "o", "p", "y", " ", "e", "a", "c", "h", " ", "s", "o",
      "n", "g", " ", "i", "n", " ", "f", "o", "r", "m", "a", "t", ":", " ",
      "A", "r", "t", "i", "s", "t", " ", "S", "o", "n", "g", "\n", "#",
      " ", "3", ".", " ", "O", "n", "e", " ", "s", "o", "n", "g", " ", "p",
      "e", "r", " ", "l", "i", "n", "e", "\n", "#", " ", "4", ".", " ",
      "R", "e", "m", "o", "v", "e", " ", "t", "h", "e", "s", "e", " ", "c",
      "o", "m", "m", "e", "n", "t", " ", "l", "i", "n", "e", "s", "\n",
      "\n", "#", " ", "E", "x", "a", "m", "p", "l", "e", "s", ":", "\n",
      "#", " ", "B", "a", "d", " ", "B", "u", "n", "n", "y", " ", "D", "a",
      "k", "i", "t", "i", "\n", "#", " ", "Q", "u", "e", "v", "e", "d",
      "o", " ", "B", "z", "r", "p", " ", "M", "u", "s", "i", "c", " ", "S",
      "e", "s", "s", "i", "o", "n", "s", " ", "5", "2", "\n", "\n", "#",
      " ", "A", "d", "d", " ", "y", "o", "u", "r", " ", "t", "r", "a", "c",
      "k", "s", " ", "h", "e", "r", "e", ":", "\n">>

ShortUrl ==
    <<"s", "p", "o", "t", "i", "f", "y", ".", "c", "o", "m", "/", "p", "l",
      "a", "y", "l", "i", "s", "t">>

\* `not tracks` for a list-valued result
NoTracksIn(ts) == ts = NoList \/ ts = << >>

\* mutant of TemplateText: the URL is written on a line of its own
TemplateTextUrlOnOwnLine(spotify_url) ==
    TemplateTitle \o TemplateUrlPrefix \o Newline \o spotify_url \o Newline \o TemplateBody

\* the text create_manual_playlist_template writes
TemplateText(spotify_url) ==
    TemplateTitle \o TemplateUrlPrefix \o spotify_url \o Newline \o TemplateBody

(***************************************************************************)
(* SpecFile: download_playlist_from_source up to the start of the loop,    *)
(* with the content of the query-list file: a curated playlist is          *)
(* extracted and written (or the manual template is), or the user supplies *)
(* a file; the file is read and the tracks found decide whether the loop   *)
(* starts.                                                                 *)
(***************************************************************************)
\* track names and artist lists of the playlist entries
EntryNames == { <<"a">>, <<"a", " ">>, <<"#", "a">> }

EntryArtists == { << <<"b">> >>, << <<"#", "b">> >>, << <<"b">>, <<"c">> >>, << <<" ", "b">> >> }

EntryRecords ==
    { SpotifyTrackRecord(n, as, Str_Album, Str_Date) : n \in EntryNames, as \in EntryArtists }

\* sources that detect_input_type takes for a curated playlist
PlaylistUrls == { SampleUrl, ShortUrl }

\* characters and contents of a file the user supplies
FileAlphabet == {"a", "#", " ", "\n"}

UserTexts == UNION { [1..n -> FileAlphabet] : n \in 0..MaxFileLen }

InitFile ==
    /\ pc = "extract"
    /\ title = << >>
    /\ youtube_metadata = None
    /\ MetaIdle
    /\ FileIdle
    /\ PageIdle
    /\ source = << >>
    /\ source_exists = FALSE
    /\ input_type \in {"spotify", "file"}
    /\ extract_only \in BOOLEAN
    /\ playlist_file = "none"
    /\ tracks = << >>
    /\ idx = 0
    /\ downloaded_files = << >>
    /\ failed_downloads = << >>
    /\ download_path = "root"
    /\ original_path = "root"
    /\ disk = << >>
    /\ attempts = << >>
    /\ outcomes = << >>
    /\ returned = << >>

\* extract_spotify_playlist_with_api returns a non-empty list
ExtractPlaylist ==
    /\ pc = "extract"
    /\ input_type = "spotify"
    /\ \E n \in 1..MaxEntries : \E ts \in [1..n -> EntryRecords] : api_tracks' = ts
    /\ pc' = "extracted"
    /\ UNCHANGED << title, youtube_metadata, metaVars, listVars, file_text, loaded_tracks,
                    pageVars >>

\* extract_spotify_playlist_with_api returns None (no client, or the API
\* raised) or an empty list
ExtractPlaylistFails ==
    /\ pc = "extract"
    /\ input_type = "spotify"
    /\ api_tracks' \in {NoList, << >>}
    /\ pc' = "extracted"
    /\ UNCHANGED << title, youtube_metadata, metaVars, listVars, file_text, loaded_tracks,
                    pageVars >>

\* create_playlist_file_from_spotify writes the file
WritePlaylistFile ==
    /\ pc = "extracted"
    /\ ~NoTracksIn(api_tracks)
    /\ \E url \in PlaylistUrls : file_text' = PlaylistFileText(url, api_tracks, SampleTime)
    /\ playlist_file' = "list"
    /\ pc' = "written"
    /\ UNCHANGED << title, youtube_metadata, metaVars, api_tracks, loaded_tracks, source,
                    source_exists, input_type, extract_only, tracks, idx, downloaded_files,
                    failed_downloads, download_path, original_path, disk, attempts, outcomes,
                    returned, pageVars >>

\* the file cannot be written: create_playlist_file_from_spotify returns
\* None and download_playlist_from_source returns []
WritePlaylistFileFails ==
    /\ pc = "extracted"
    /\ ~NoTracksIn(api_tracks)
    /\ pc' = "done"
    /\ returned' = << >>
    /\ UNCHANGED << title, youtube_metadata, metaVars, fileVars, source, source_exists,
                    input_type, extract_only, playlist_file, tracks, idx, downloaded_files,
                    failed_downloads, download_path, original_path, disk, attempts, outcomes,
                    pageVars >>

\* `if not tracks`: create_manual_playlist_template writes the template
WriteTemplate ==
    /\ pc = "extracted"
    /\ NoTracksIn(api_tracks)
    /\ \E url \in PlaylistUrls : file_text' = TemplateText(url)
    /\ playlist_file' = "template"
    /\ pc' = "written"
    /\ UNCHANGED << title, youtube_metadata, metaVars, api_tracks, loaded_tracks, source,
                    source_exists, input_type, extract_only, tracks, idx, downloaded_files,
                    failed_downloads, download_path, original_path, disk, attempts, outcomes,
                    returned, pageVars >>

\* extract_only after the curated list or the template is on file
FileExtractOnlyReturn ==
    /\ pc = "written"
    /\ input_type = "spotify"
    /\ extract_only
    /\ pc' = "done"
    /\ returned' = << >>
    /\ UNCHANGED << title, youtube_metadata, metaVars, fileVars, source, source_exists,
                    input_type, extract_only, playlist_file, tracks, idx, downloaded_files,
                    failed_downloads, download_path, original_path, disk, attempts, outcomes,
                    pageVars >>

\* the source is a text file of the user
UserFile ==
    /\ pc = "extract"
    /\ input_type = "file"
    /\ \E text \in UserTexts : file_text' = text
    /\ pc' = "written"
    /\ UNCHANGED << title, youtube_metadata, metaVars, listVars, api_tracks, loaded_tracks,
                    pageVars >>

\* load_tracks_from_file reads the file
LoadTracks ==
    /\ pc = "written"
    /\ input_type = "file" \/ ~extract_only
    /\ loaded_tracks' = load_tracks_from_file(file_text)
    /\ pc' = "loaded"
    /\ UNCHANGED << title, youtube_metadata, metaVars, listVars, api_tracks, file_text,
                    pageVars >>

\* `if not tracks: return []`
FileNoTracks ==
    /\ pc = "loaded"
    /\ loaded_tracks = << >>
    /\ pc' = "done"
    /\ returned' = << >>
    /\ UNCHANGED << title, youtube_metadata, metaVars, fileVars, source, source_exists,
                    input_type, extract_only, playlist_file, tracks, idx, downloaded_files,
                    failed_downloads, download_path, original_path, disk, attempts, outcomes,
                    pageVars >>

\* tracks were read: the path is swapped and the loop starts
FileStartLoop ==
    /\ pc = "loaded"
    /\ loaded_tracks # << >>
    /\ tracks' = [k \in 1..Len(loaded_tracks) |-> loaded_tracks[k].query]
    /\ original_path' = download_path
    /\ download_path' = "folder"
    /\ idx' = 1
    /\ pc' = "loop"
    /\ UNCHANGED << title, youtube_metadata, metaVars, fileVars, source, source_exists,
                    input_type, extract_only, playlist_file, downloaded_files,
                    failed_downloads, disk, attempts, outcomes, returned, pageVars >>

NextFile ==
    \/ ExtractPlaylist
    \/ ExtractPlaylistFails
    \/ WritePlaylistFile
    \/ WritePlaylistFileFails
    \/ WriteTemplate
    \/ FileExtractOnlyReturn
    \/ UserFile
    \/ LoadTracks
    \/ FileNoTracks
    \/ FileStartLoop

SpecFile == InitFile /\ [][NextFile]_vars

(***************************************************************************)
(* Query-list file claims (checked under SpecFile).                        *)
(***************************************************************************)
QueriesOf(ts) == [k \in 1..Len(ts) |-> ts[k].query]

\* C10: reading the written file back yields the queries that were
\* written: same number, same order, same text.
C10_QueryListRoundTrip ==
    (pc = "loaded" /\ playlist_file = "list") => QueriesOf(loaded_tracks) = QueriesOf(api_tracks)


\* C11: when the curated extraction gave nothing, the template that is
\* written holds no live query (every line, trimmed, is empty or starts
\* with #), no track is read from it, the loop is never entered, no
\* download_track call is made and the call returns the empty sequence.
C11_TemplateYieldsNoDownload ==
    playlist_file = "template" =>
        /\ \A k \in 1..Len(ReadLines(file_text)) :
              LET line == Strip(ReadLines(file_text)[k])
              IN  line = << >> \/ line[1] = "#"
        /\ loaded_tracks = << >>
        /\ pc # "loop"
        /\ attempts = << >>
        /\ pc = "done" => returned = << >>

C11_Witness ==
    /\ playlist_file = "template"
    /\ api_tracks = NoList
    /\ ~extract_only
    /\ pc = "done"


\* positions of the line breaks of the file, and its number of lines (a
\* last line need not end with a line break)
LineBreaks == {p \in 1..Len(file_text) : file_text[p] = "\n"}

NumLines ==
    Cardinality(LineBreaks)
        + (IF file_text # << >> /\ file_text[Len(file_text)] # "\n" THEN 1 ELSE 0)

\* where the k-th line starts and ends (line break excluded)
LineStart(k) ==
    IF k = 1 THEN 1
    ELSE 1 + CHOOSE p \in LineBreaks : Cardinality({q \in LineBreaks : q < p}) = k - 2

LineEnd(k) ==
    IF k <= Cardinality(LineBreaks)
    THEN (CHOOSE p \in LineBreaks : Cardinality({q \in LineBreaks : q < p}) = k - 1) - 1
    ELSE Len(file_text)

TrimmedLine(k) == Strip(SubSeq(file_text, LineStart(k), LineEnd(k)))

\* the lines that are queries: non-empty after trimming, not starting with #
QueryLineNumbers ==
    {k \in 1..NumLines : TrimmedLine(k) # << >> /\ TrimmedLine(k)[1] # "#"}

\* C14: load_tracks_from_file returns exactly the lines of the file that
\* are non-empty after trimming and do not start with #, trimmed, one
\* query per line, in file order.
C14_LoadReturnsQueryLines ==
    (pc = "loaded" /\ input_type = "file") =>
        /\ Len(loaded_tracks) = Cardinality(QueryLineNumbers)
        /\ \A k \in QueryLineNumbers :
              loaded_tracks[Cardinality({j \in QueryLineNumbers : j <= k})].query
                  = TrimmedLine(k)

C14_Witness ==
    /\ pc = "loaded"
    /\ input_type = "file"
    /\ Len(loaded_tracks) = 1
    /\ NumLines = 2
    /\ \E k \in 1..NumLines : TrimmedLine(k) # << >> /\ TrimmedLine(k)[1] = "#"

=============================================================================
